---- MODULE Spec2Model ----
(***************************************************************************)
(* npm-cleaner: a walk over a directory tree that collects the             *)
(* node_modules folders that are old and large enough, sorts them by size  *)
(* and optionally deletes them.                                            *)
(*                                                                         *)
(* The repository holds two builds of the program: src/npmcleaner.go (the  *)
(* current one) and src/unnamed/part_000 (an earlier one).  They differ in *)
(* three places of run: the guard on a nil directory entry, the flag that  *)
(* switches the exclusion patterns on, and where a candidate's age comes   *)
(* from.  The variable build selects the build; everything else is shared. *)
(*                                                                         *)
(* A path is the sequence of its separators and names, so that the         *)
(* exclusion patterns (separator, name, separator) match on the joined     *)
(* path as the regular expressions of the code do.                         *)
(***************************************************************************)
EXTENDS Integers, Sequences, FiniteSets, TLC

VARIABLES
    build,      \* "npmcleaner" (src/npmcleaner.go) or "part_000" (src/unnamed/part_000)
    c,          \* the Config run and main read
    fs,         \* the directory tree: per node its name, times, sizes
    fault,      \* the one I/O failure of this execution, or NoFault
    pc,         \* where the process is
    todo,       \* WalkDir's pending callback invocations, next first
    visited,    \* history: the callback invocations made so far, in order
    evaluated,  \* history: nodes that reached the node_modules branch of the callback
    sizeCalls,  \* history: nodes folderSizeMb was invoked on, in order
    results,    \* the Results run accumulates
    walkErr,    \* the error filepath.WalkDir handed back to run
    ret,        \* what run returned: [results, err]; results is <<>> for a nil pointer
    printed,    \* whether main printed the table
    deleted,    \* history: paths os.RemoveAll removed, in order
    attempted,  \* history: paths os.RemoveAll was called on, in order
    exitCode,   \* the process's exit status, -1 while it runs
    clockT,     \* a modification time handed to daysSince on its own
    clockDays   \* what daysSince returned for it, <<>> before the call

vars == <<build, c, fs, fault, pc, todo, visited, evaluated, sizeCalls,
          results, walkErr, ret, printed, deleted, attempted, exitCode,
          clockT, clockDays>>

\* the two variables of daysSince taken on its own
clock == <<clockT, clockDays>>

----------------------------------------------------------------------------
(* Program constants *)

NodeModules == "node_modules"

DefaultMbGreater == 50
DefaultDaysAgo == 7

\* filepath.Separator, one element of a path
SEP == "/"

----------------------------------------------------------------------------
(* Bounds of the model *)

\* --limit ranges over MinLimit..MaxLimit
MaxLimit == 2
MinLimit == 0 - 1

\* daysSince on its own is handed times up to MaxQuarters quarters of a day
\* before and after the clock
MaxQuarters == 30

\* the clock: time.Now().Unix(), and the modification times of the tree:
\* exactly DefaultDaysAgo days ago, and one second later
DaySecs == 60 * 60 * 24
Now == 100 * DaySecs
StaleTime == Now - DefaultDaysAgo * DaySecs
FreshTime == StaleTime + 1

\* file sizes in bytes.  With the nested file, the small lib.js makes the
\* first candidate one byte short of DefaultMbGreater MiB and the big one
\* makes it exactly that; the second candidate holds one file.
MiB == 1024 * 1024
NestedBytes == 30 * MiB + 524288
LibSmallBytes == DefaultMbGreater * MiB - NestedBytes - 1
LibBigBytes == DefaultMbGreater * MiB - NestedBytes
SecondSizes == { DefaultMbGreater * MiB - 1, DefaultMbGreater * MiB,
                 (DefaultMbGreater + 10) * MiB }

----------------------------------------------------------------------------
(* The directory tree.  Its shape is fixed; the name of the first project  *)
(* directory, the modification times and the sizes vary.  Children are in  *)
(* the order os.ReadDir returns them: sorted by name.                      *)
(*                                                                         *)
(*   0  <fromDir>                                                          *)
(*   1    <.cache | AppData | Program Files | app>                         *)
(*   2      a.txt                                                          *)
(*   3      node_modules                                                   *)
(*   4        lib.js                                                       *)
(*   5        node_modules                                                 *)
(*   6          x.js                                                       *)
(*   7    proj                                                             *)
(*   8      node_modules                                                   *)
(*   9        z.js                                                         *)
(*  10      readme                                                         *)

Root == 0
Nodes == 0..10
Dirs == {0, 1, 3, 5, 7, 8}
Files == Nodes \ Dirs

parent ==
    (1 :> 0) @@ (2 :> 1) @@ (3 :> 1) @@ (4 :> 3) @@ (5 :> 3) @@ (6 :> 5) @@
    (7 :> 0) @@ (8 :> 7) @@ (9 :> 8) @@ (10 :> 7)

children ==
    (0 :> <<1, 7>>) @@ (1 :> <<2, 3>>) @@ (3 :> <<4, 5>>) @@ (5 :> <<6>>) @@
    (7 :> <<8, 10>>) @@ (8 :> <<9>>) @@
    (2 :> <<>>) @@ (4 :> <<>>) @@ (6 :> <<>>) @@ (9 :> <<>>) @@ (10 :> <<>>)

FirstDirNames == {".cache", "AppData", "Program Files", "app"}

fixedName ==
    (2 :> "a.txt") @@ (3 :> NodeModules) @@ (4 :> "lib.js") @@ (5 :> NodeModules) @@
    (6 :> "x.js") @@ (7 :> "proj") @@ (8 :> NodeModules) @@ (9 :> "z.js") @@
    (10 :> "readme")

\* an I/O failure: Lstat of the root, ReadDir of a directory, Info of an entry
NoFault == [kind |-> "none", node |-> 0 - 1]
FaultSites ==
    { [kind |-> "lstat", node |-> Root],
      [kind |-> "read", node |-> 1],
      [kind |-> "read", node |-> 3],
      [kind |-> "read", node |-> 7],
      [kind |-> "info", node |-> 3],
      [kind |-> "info", node |-> 8],
      [kind |-> "info", node |-> 9],
      [kind |-> "info", node |-> 10] }

IsDir(n) == n \in Dirs
Name(n) == fs[n].name
LstatFails(n) == fault = [kind |-> "lstat", node |-> n]
ReadDirFails(n) == fault = [kind |-> "read", node |-> n]
InfoFails(n) == fault = [kind |-> "info", node |-> n]

----------------------------------------------------------------------------
(* Paths *)

\* filepath.Join(dir, name) as WalkDir uses it: the result is Clean
Join(dir, name) ==
    IF dir = <<".">> THEN <<name>>
    ELSE IF dir = <<SEP>> THEN <<SEP, name>>
    ELSE dir \o <<SEP, name>>

RECURSIVE PathOf(_)
PathOf(n) == IF n = Root THEN c.fromDir ELSE Join(PathOf(parent[n]), Name(n))

\* filepath.Base of a clean path
Base(path) == path[Len(path)]

\* excludeFolders: the three folder-name patterns handed to matchFolders
DotPattern == "\\..+?"
excludeFolders == <<DotPattern, "AppData", "Program Files">>

\* whether one name of a path matches a folder-name pattern: the dot pattern
\* is a dot and at least one more character, the others are literal names
DotNames == {".cache", ".git", ".config"}
nameMatches(folderName, name) ==
    IF folderName = DotPattern THEN name \in DotNames ELSE name = folderName

\* matchFolders(folderName).MatchString(path): the unanchored pattern
\* .*?<sep>folderName<sep>.*? finds, somewhere in the path, a separator, the
\* folder name and a separator
matchFolders(folderName, path) ==
    \E i \in 1..(Len(path) - 2) :
        /\ path[i] = SEP
        /\ nameMatches(folderName, path[i + 1])
        /\ path[i + 2] = SEP

\* the loop over excludeFolders
excludedPath(path) ==
    \E k \in 1..Len(excludeFolders) : matchFolders(excludeFolders[k], path)

\* whether run consults excludeFolders at all
exclusionOn == IF build = "npmcleaner" THEN c.onWindows ELSE TRUE

----------------------------------------------------------------------------
(* FolderMetrics: the two inner walks and the day arithmetic *)

\* Go's integer division: it truncates toward zero
Quo(a, b) == IF a >= 0 THEN a \div b ELSE 0 - ((0 - a) \div b)

\* a variant of daysSince that rounds down instead of toward zero
daysSinceFloor(t) == (Now - t) \div DaySecs

\* daysSince(t): int(time.Now().Unix()-t.Unix()) / 60 / 60 / 24
daysSince(t) == Quo(Quo(Quo(Now - t, 60), 60), 24)

\* bytesToMb(b): int(b / 1024 / 1024)
bytesToMb(b) == Quo(Quo(b, 1024), 1024)

\* time.Time{}: the zero time, before every file's time.  Its Unix() is
\* -62135596800; the model checker's integers are 32 bits wide, so it
\* stands at -2000000000 here
ZeroTime == 0 - 2000000000

\* The files an inner filepath.WalkDir hands to its callback, in order, from
\* node n down.  The callbacks of both inner walks ignore their err
\* parameter, so a directory ReadDir fails on contributes no entries and the
\* walk goes on; with opaque set (latestModifiedFile) a directory named
\* node_modules answers SkipDir.
RECURSIVE walkFiles(_, _)
RECURSIVE walkFilesOf(_, _)
walkFilesOf(seq, opaque) ==
    IF seq = <<>> THEN <<>>
    ELSE walkFiles(Head(seq), opaque) \o walkFilesOf(Tail(seq), opaque)
walkFiles(n, opaque) ==
    IF ~IsDir(n) THEN <<n>>
    ELSE IF opaque /\ Base(PathOf(n)) = NodeModules THEN <<>>
    ELSE IF ReadDirFails(n) THEN <<>>
    ELSE walkFilesOf(children[n], opaque)

\* whether d.Info() fails on one of the files of an inner walk
infoError(files) == \E i \in 1..Len(files) : InfoFails(files[i])

RECURSIVE latestOf(_, _)
latestOf(files, lastModified) ==
    IF files = <<>> THEN lastModified
    ELSE latestOf(Tail(files),
                  IF fs[Head(files)].mtime > lastModified
                  THEN fs[Head(files)].mtime ELSE lastModified)

RECURSIVE sumSizes(_)
sumSizes(files) ==
    IF files = <<>> THEN 0 ELSE fs[Head(files)].size + sumSizes(Tail(files))

\* latestModifiedFile(p): [err, val]
latestModifiedFile(n) ==
    LET files == walkFiles(n, TRUE) IN
    IF infoError(files) THEN [err |-> TRUE, val |-> 0 - 1]
    ELSE [err |-> FALSE, val |-> daysSince(latestOf(files, ZeroTime))]

\* folderSizeMb(p): [err, val]
folderSizeMb(n) ==
    LET files == walkFiles(n, FALSE) IN
    IF infoError(files) THEN [err |-> TRUE, val |-> 0]
    ELSE [err |-> FALSE, val |-> bytesToMb(sumSizes(files))]

\* a variant of modDaysAgoOf with the parent walk in both builds
modDaysAgoOfParentWalk(n) == latestModifiedFile(parent[n])

\* the age run compares with c.daysAgo: [err, val].  npmcleaner.go reads the
\* candidate's own modification time; part_000 walks the candidate's parent.
modDaysAgoOf(n) ==
    IF build = "npmcleaner"
    THEN IF InfoFails(n) THEN [err |-> TRUE, val |-> 0]
         ELSE [err |-> FALSE, val |-> daysSince(fs[n].mtime)]
    ELSE latestModifiedFile(parent[n])

----------------------------------------------------------------------------
(* Results *)

newResults == [folders |-> <<>>, totalSizeMb |-> 0]

\* a variant of add that assigns the total instead of adding to it
addAssignsTotal(r, f) ==
    [folders |-> Append(r.folders, f), totalSizeMb |-> f.sizeMb]

\* (r *Results) add(f)
add(r, f) ==
    [folders |-> Append(r.folders, f), totalSizeMb |-> r.totalSizeMb + f.sizeMb]

\* a variant of reachedLimit that fires one folder late
reachedLimitLate(r) == Len(r.folders) > c.limit

\* the test that ends the walk: len(results.folders) == c.limit
reachedLimit(r) == Len(r.folders) = c.limit

\* a variant of afterAdd that lets the walk go on into an accepted folder
afterAddDescends(r) == IF reachedLimit(r) THEN "reachedMax" ELSE "nil"

\* what the callback returns once a folder is added: reachedMax at the
\* limit, else SkipDir
afterAdd(r) == IF reachedLimit(r) THEN "reachedMax" ELSE "SkipDir"

\* a variant of tooSmall that compares the size with the wrong threshold
tooSmallWrongThreshold(sizeMb) == sizeMb < c.daysAgo

\* a variant of tooFresh with the comparison inverted
tooFreshInverted(modDaysAgo) == modDaysAgo > c.daysAgo

\* a variant of tooFresh that also rejects an age of exactly c.daysAgo
tooFreshInclusive(modDaysAgo) == modDaysAgo <= c.daysAgo

\* the two threshold tests of the callback
tooFresh(modDaysAgo) == modDaysAgo < c.daysAgo
tooSmall(sizeMb) == sizeMb < c.mbGreater

\* a variant of runFails with the second comparison inverted
runFailsInverted(err) == err # "nil" /\ err = "reachedMax"

\* run's test after the walk: err != nil && err != reachedMax
runFails(err) == err # "nil" /\ err # "reachedMax"

\* a variant of sortLess that orders ascending
sortLessAscending(f, g) == f.sizeMb < g.sizeMb

\* the less function of Results.sort
sortLess(f, g) == f.sizeMb > g.sizeMb

\* the orders sort.Slice may leave: a permutation of the folders in which no
\* folder is less (by sortLess) than the one before it.  sort.Slice is not
\* stable, so folders of equal size may end in any order.
sortedOrders(folders) ==
    { s \in [1..Len(folders) -> {folders[i] : i \in 1..Len(folders)}] :
        /\ \A i \in 1..Len(folders) :
              Cardinality({j \in 1..Len(folders) : s[j] = folders[i]})
                = Cardinality({j \in 1..Len(folders) : folders[j] = folders[i]})
        /\ \A i \in 1..(Len(folders) - 1) : ~sortLess(s[i + 1], s[i]) }

----------------------------------------------------------------------------
(* run: the callback of the main walk *)

\* what one invocation of the callback yields: the value it returns, the
\* Results after it, and whether it reached the node_modules branch and
\* invoked folderSizeMb
Outcome(r, res, ev, sz) == [ret |-> r, results |-> res, evaluated |-> ev, sized |-> sz]

\* the callback on an entry d that is not nil, whatever err it is handed
\* (the callback never reads err)
walkFn(n, res) ==
    LET path == PathOf(n) IN
    IF ~IsDir(n) THEN Outcome("nil", res, FALSE, FALSE)
    ELSE IF exclusionOn /\ excludedPath(path) THEN Outcome("SkipDir", res, FALSE, FALSE)
    ELSE IF Base(path) # NodeModules THEN Outcome("nil", res, FALSE, FALSE)
    ELSE
      LET age == modDaysAgoOf(n) IN
      IF age.err THEN Outcome("ioerr", res, TRUE, FALSE)
      ELSE IF tooFresh(age.val) THEN Outcome("SkipDir", res, TRUE, FALSE)
      ELSE
        LET size == folderSizeMb(n) IN
        IF size.err THEN Outcome("ioerr", res, TRUE, TRUE)
        ELSE IF tooSmall(size.val) THEN Outcome("SkipDir", res, TRUE, TRUE)
        ELSE
          LET added == add(res, [path |-> path, sizeMb |-> size.val,
                                 modDaysAgo |-> age.val])
          IN Outcome(afterAdd(added), added, TRUE, TRUE)

\* the callback on a nil entry (WalkDir could not Lstat the root):
\* npmcleaner.go returns nil, part_000 dereferences d and panics
walkFnNil == IF build = "npmcleaner" THEN "nil" ELSE "panic"

\* one pending invocation of the callback: the node, and whether it is the
\* second call WalkDir makes to report a ReadDir error
Call(n, e) == [node |-> n, err |-> e]

RECURSIVE calls(_)
calls(seq) == IF seq = <<>> THEN <<>> ELSE <<Call(Head(seq), FALSE)>> \o calls(Tail(seq))

\* the entries left in a directory being read, dropped when the callback
\* answers SkipDir for a file of it
dropSiblings(n, rest) ==
    SelectSeq(rest, LAMBDA e : ~(e.err = FALSE /\ e.node # Root /\ n # Root
                                 /\ parent[e.node] = parent[n]))

\* filepath.walkDir after the callback returned r for the call at the head
\* of todo: the invocations still pending
walkDirRest(call, r) ==
    LET n == call.node
        rest == Tail(todo)
    IN IF r = "SkipDir" THEN (IF IsDir(n) THEN rest ELSE dropSiblings(n, rest))
       ELSE IF ~IsDir(n) \/ call.err THEN rest
       ELSE IF ReadDirFails(n) THEN <<Call(n, TRUE)>> \o rest
       ELSE calls(children[n]) \o rest

----------------------------------------------------------------------------
(* The initial states: a configuration, a tree, at most one fault *)

RootPaths == { <<SEP, "home">>, <<".">> }

Configs ==
    [ daysAgo : {DefaultDaysAgo}, mbGreater : {DefaultMbGreater},
      limit : MinLimit..MaxLimit, fromDir : RootPaths,
      delete : BOOLEAN, onWindows : BOOLEAN ]

\* the tree with the first directory named a, the candidate node_modules 3
\* and its sibling file 2 modified at t3 and t2, and the files 4 and 9 of
\* the two candidates s4 and s9 bytes long.  The second candidate and its
\* sibling file are stale; the project directories and everything inside a
\* node_modules are fresh.
Tree(a, t3, t2, s4, s9) ==
    [ n \in Nodes |->
        [ name  |-> IF n = Root THEN "" ELSE IF n = 1 THEN a ELSE fixedName[n],
          mtime |-> IF n = 3 THEN t3 ELSE IF n = 2 THEN t2
                    ELSE IF n \in {8, 10} THEN StaleTime ELSE FreshTime,
          size  |-> IF n = 4 THEN s4 ELSE IF n = 9 THEN s9
                    ELSE IF n = 6 THEN NestedBytes ELSE 0 ] ]

Trees ==
    { Tree(a, t3, t2, s4, s9) :
        a \in FirstDirNames, t3 \in {StaleTime, FreshTime},
        t2 \in {StaleTime, FreshTime},
        s4 \in {LibSmallBytes, LibBigBytes}, s9 \in SecondSizes }

Init ==
    /\ build \in {"npmcleaner", "part_000"}
    /\ c \in Configs
    /\ (build = "part_000" => c.onWindows = FALSE)
    /\ fs \in Trees
    /\ fault \in {NoFault} \cup FaultSites
    /\ pc = "run"
    /\ todo = <<>>
    /\ visited = <<>>
    /\ evaluated = <<>>
    /\ sizeCalls = <<>>
    /\ results = newResults
    /\ walkErr = "pending"
    /\ ret = [results |-> <<>>, err |-> "unset"]
    /\ printed = FALSE
    /\ deleted = <<>>
    /\ attempted = <<>>
    /\ exitCode = 0 - 1
    /\ clockT = Now
    /\ clockDays = <<>>

----------------------------------------------------------------------------
(* The steps of run *)

\* filepath.WalkDir(c.fromDir, fn): Lstat of the root; when it fails the
\* callback is invoked with a nil entry and what it returns ends the walk
WalkDirRoot ==
    /\ pc = "run"
    /\ IF LstatFails(Root)
       THEN /\ visited' = Append(visited, [node |-> Root, nilEntry |-> TRUE, err |-> TRUE])
            /\ todo' = <<>>
            /\ IF walkFnNil = "panic"
               THEN /\ pc' = "exited"
                    /\ exitCode' = 2
                    /\ walkErr' = walkErr
               ELSE /\ pc' = "walked"
                    /\ exitCode' = exitCode
                    /\ walkErr' = "nil"
       ELSE /\ todo' = <<Call(Root, FALSE)>>
            /\ pc' = "walk"
            /\ UNCHANGED <<visited, walkErr, exitCode>>
    /\ UNCHANGED clock
    /\ UNCHANGED <<build, c, fs, fault, evaluated, sizeCalls, results, ret,
                   printed, deleted, attempted>>

\* one invocation of the callback by walkDir, and walkDir's reaction to
\* what it returns
Visit ==
    /\ pc = "walk"
    /\ todo # <<>>
    /\ LET call == Head(todo)
           out == walkFn(call.node, results)
           stop == out.ret \in {"reachedMax", "ioerr"}
           rest == IF stop THEN <<>> ELSE walkDirRest(call, out.ret)
       IN /\ visited' = Append(visited, [node |-> call.node, nilEntry |-> FALSE,
                                         err |-> call.err])
          /\ evaluated' = IF out.evaluated THEN Append(evaluated, call.node) ELSE evaluated
          /\ sizeCalls' = IF out.sized THEN Append(sizeCalls, call.node) ELSE sizeCalls
          /\ results' = out.results
          /\ todo' = rest
          /\ walkErr' = IF stop THEN out.ret ELSE IF rest = <<>> THEN "nil" ELSE walkErr
          /\ pc' = IF rest = <<>> THEN "walked" ELSE "walk"
    /\ UNCHANGED clock
    /\ UNCHANGED <<build, c, fs, fault, ret, printed, deleted, attempted, exitCode>>

\* the end of run: an error other than reachedMax is returned with nil
\* results, otherwise the results are sorted and returned
RunReturn ==
    /\ pc = "walked"
    /\ IF runFails(walkErr)
       THEN /\ ret' = [results |-> <<>>, err |-> walkErr]
            /\ results' = results
       ELSE \E s \in sortedOrders(results.folders) :
                /\ results' = [results EXCEPT !.folders = s]
                /\ ret' = [results |-> <<results'>>, err |-> "nil"]
    /\ pc' = "main"
    /\ UNCHANGED clock
    /\ UNCHANGED <<build, c, fs, fault, todo, visited, evaluated, sizeCalls,
                   walkErr, printed, deleted, attempted, exitCode>>

----------------------------------------------------------------------------
(* The steps of main after run *)

\* a variant of deleteRequested with the branches of main swapped
deleteRequestedSwapped == ~c.delete

\* main's test before the deletion loop: !c.delete prints the hint, else
\* the loop runs
deleteRequested == c.delete

\* a variant of removeAllFailed that goes on after a failed removal
removeAllFailedIgnored(ok) == FALSE

\* main's test after os.RemoveAll: err != nil
removeAllFailed(ok) == ~ok

\* err != nil: the error is printed and the process exits with status 1
MainError ==
    /\ pc = "main"
    /\ ret.err # "nil"
    /\ pc' = "exited"
    /\ exitCode' = 1
    /\ UNCHANGED clock
    /\ UNCHANGED <<build, c, fs, fault, todo, visited, evaluated, sizeCalls,
                   results, walkErr, ret, printed, deleted, attempted>>

\* len(results.folders) == 0: "No results found", main returns
MainNoResults ==
    /\ pc = "main"
    /\ ret.err = "nil"
    /\ Len(ret.results[1].folders) = 0
    /\ pc' = "exited"
    /\ exitCode' = 0
    /\ UNCHANGED clock
    /\ UNCHANGED <<build, c, fs, fault, todo, visited, evaluated, sizeCalls,
                   results, walkErr, ret, printed, deleted, attempted>>

\* results.print(), then either the hint to run with -delete or the loop
MainPrint ==
    /\ pc = "main"
    /\ ret.err = "nil"
    /\ Len(ret.results[1].folders) # 0
    /\ printed' = TRUE
    /\ IF deleteRequested
       THEN pc' = "deleting" /\ exitCode' = exitCode
       ELSE pc' = "exited" /\ exitCode' = 0
    /\ UNCHANGED clock
    /\ UNCHANGED <<build, c, fs, fault, todo, visited, evaluated, sizeCalls,
                   results, walkErr, ret, deleted, attempted>>

\* one round of the deletion loop: os.RemoveAll on the next folder, which
\* succeeds or fails; a failure exits with status 1
DeleteFolder ==
    /\ pc = "deleting"
    /\ Len(attempted) < Len(ret.results[1].folders)
    /\ LET f == ret.results[1].folders[Len(attempted) + 1] IN
       /\ attempted' = Append(attempted, f.path)
       /\ \E ok \in BOOLEAN :
            /\ deleted' = IF ok THEN Append(deleted, f.path) ELSE deleted
            /\ IF removeAllFailed(ok)
               THEN pc' = "exited" /\ exitCode' = 1
               ELSE UNCHANGED <<pc, exitCode>>
    /\ UNCHANGED clock
    /\ UNCHANGED <<build, c, fs, fault, todo, visited, evaluated, sizeCalls,
                   results, walkErr, ret, printed>>

\* the loop is over: main returns
MainReturn ==
    /\ pc = "deleting"
    /\ Len(attempted) = Len(ret.results[1].folders)
    /\ pc' = "exited"
    /\ exitCode' = 0
    /\ UNCHANGED clock
    /\ UNCHANGED <<build, c, fs, fault, todo, visited, evaluated, sizeCalls,
                   results, walkErr, ret, printed, deleted, attempted>>

Next ==
    \/ WalkDirRoot
    \/ Visit
    \/ RunReturn
    \/ MainError
    \/ MainNoResults
    \/ MainPrint
    \/ DeleteFolder
    \/ MainReturn

Spec == Init /\ [][Next]_vars

----------------------------------------------------------------------------
(* daysSince on its own: one call on a time around the clock *)

\* the times: every quarter of a day from MaxQuarters before the clock to
\* MaxQuarters after it, and the seconds next to each
ClockInputs ==
    { Now + k * (DaySecs \div 4) + d : k \in (0 - MaxQuarters)..MaxQuarters, d \in {0 - 1, 0, 1} }

InitDays ==
    /\ clockT \in ClockInputs
    /\ clockDays = <<>>
    /\ pc = "clock"
    /\ build = "npmcleaner"
    /\ c = [ daysAgo |-> DefaultDaysAgo, mbGreater |-> DefaultMbGreater, limit |-> MaxLimit,
             fromDir |-> <<".">>, delete |-> FALSE, onWindows |-> FALSE ]
    /\ fs = Tree("app", StaleTime, StaleTime, LibBigBytes, DefaultMbGreater * MiB)
    /\ fault = NoFault
    /\ todo = <<>>
    /\ visited = <<>>
    /\ evaluated = <<>>
    /\ sizeCalls = <<>>
    /\ results = newResults
    /\ walkErr = "pending"
    /\ ret = [results |-> <<>>, err |-> "unset"]
    /\ printed = FALSE
    /\ deleted = <<>>
    /\ attempted = <<>>
    /\ exitCode = 0 - 1

\* the call daysSince(t)
DaysSinceCall ==
    /\ pc = "clock"
    /\ clockDays = <<>>
    /\ clockDays' = <<daysSince(clockT)>>
    /\ UNCHANGED <<build, c, fs, fault, pc, todo, visited, evaluated, sizeCalls,
                   results, walkErr, ret, printed, deleted, attempted, exitCode, clockT>>

NextDays == DaysSinceCall

SpecDays == InitDays /\ [][NextDays]_vars

----------------------------------------------------------------------------
(* Vocabulary of the properties *)

RECURSIVE Ancestors(_)
Ancestors(n) == IF n = Root THEN {} ELSE {parent[n]} \cup Ancestors(parent[n])

\* the node a result's path names
NodeAt(path) == CHOOSE n \in Nodes : PathOf(n) = path

\* a name the exclusion patterns are meant for
ExcludedName(name) == \E k \in 1..Len(excludeFolders) : nameMatches(excludeFolders[k], name)

\* the path passes through a directory with an excluded name
UnderExcludedName(path) ==
    \E i \in 1..(Len(path) - 1) : path[i] # SEP /\ ExcludedName(path[i])

\* the node lies inside a directory with an excluded name
InsideExcluded(n) == \E a \in Ancestors(n) : a # Root /\ ExcludedName(Name(a))

\* the node lies inside a directory named node_modules
InsideNodeModules(n) == \E a \in Ancestors(n) : a # Root /\ Name(a) = NodeModules

ResultPaths == { results.folders[i].path : i \in 1..Len(results.folders) }
VisitedNodes == { visited[i].node : i \in 1..Len(visited) }
EvaluatedNodes == { evaluated[i] : i \in 1..Len(evaluated) }

IsProperPrefix(p, q) == Len(p) < Len(q) /\ SubSeq(q, 1, Len(p)) = p

----------------------------------------------------------------------------
(* The claims *)

\* C1: every folder in the results meets both thresholds: its recorded
\* modDaysAgo is at least c.daysAgo and its recorded sizeMb at least
\* c.mbGreater, in every state of the scan.
C1_AcceptedMeetThresholds ==
    \A i \in 1..Len(results.folders) :
        /\ results.folders[i].modDaysAgo >= c.daysAgo
        /\ results.folders[i].sizeMb >= c.mbGreater

\* C1's case: a folder was accepted while another candidate was rejected
C1_Witness ==
    /\ Len(results.folders) >= 1
    /\ Len(evaluated) > Len(results.folders)
    /\ Len(sizeCalls) > Len(results.folders)

\* C2: the results never hold more than c.limit folders, whatever integer
\* --limit supplies, 0 and negative values included (a count is never
\* below 0, so a negative limit allows no folder, as a limit of 0 does).
C2_LimitNeverExceeded ==
    Len(results.folders) <= (IF c.limit < 0 THEN 0 ELSE c.limit)

\* C3: with exclusion enabled, no folder in the results lies under a
\* directory with an excluded name, for absolute and relative roots alike.
C3_NoResultUnderExcludedName ==
    exclusionOn => \A p \in ResultPaths : ~UnderExcludedName(p)

\* C4: with exclusion enabled, no entry inside a directory with an
\* excluded name is ever passed to the callback of the walk.
C4_NothingInsideExcludedVisited ==
    exclusionOn => \A n \in VisitedNodes : ~InsideExcluded(n)

\* C5: a node_modules directory is a leaf of the main walk: nothing inside
\* one is passed to the callback or evaluated as a candidate, and no result
\* path is an ancestor of another result path.
C5_NodeModulesIsLeaf ==
    /\ \A n \in VisitedNodes : ~InsideNodeModules(n)
    /\ \A n \in EvaluatedNodes : ~InsideNodeModules(n)
    /\ \A p, q \in ResultPaths : ~IsProperPrefix(p, q)

\* C5's case: the outer node_modules, which holds a nested one, was
\* accepted and the walk went on to the next project
C5_Witness ==
    /\ PathOf(3) \in ResultPaths
    /\ 7 \in VisitedNodes

\* C6: if the root path does not exist, run returns an error and no
\* results, and main exits with status 1 without printing a table.
C6_MissingRootIsError ==
    LstatFails(Root) =>
        /\ (pc = "main" => ret = [results |-> <<>>, err |-> "ioerr"])
        /\ (pc = "exited" => exitCode = 1 /\ ~printed)

\* C7: if the walk reports an I/O error for an entry (a directory that
\* cannot be read), the walk stops there and run returns the error with no
\* results.
C7_WalkErrorAborts ==
    \A i \in 1..Len(visited) :
        (visited[i].err /\ ~visited[i].nilEntry) =>
            /\ i = Len(visited)
            /\ todo = <<>>
            /\ walkErr = "ioerr"
            /\ (pc \in {"main", "exited"} => ret = [results |-> <<>>, err |-> "ioerr"])

\* reading the age of candidate n meets a failing Info
AgeReadFails(n) ==
    IF build = "npmcleaner" THEN InfoFails(n)
    ELSE infoError(walkFiles(parent[n], TRUE))

\* summing the sizes of candidate n meets a failing Info
SizeReadFails(n) == infoError(walkFiles(n, FALSE))

SizedNodes == { sizeCalls[i] : i \in 1..Len(sizeCalls) }

\* C8: if computing a candidate's metrics fails, the scan stops at that
\* candidate and run returns the error with nil results; folders accepted
\* earlier in the run are not returned.
C8_MetricErrorAbortsScan ==
    \A n \in EvaluatedNodes :
        (AgeReadFails(n) \/ (n \in SizedNodes /\ SizeReadFails(n))) =>
            /\ visited[Len(visited)].node = n
            /\ todo = <<>>
            /\ pc # "walk"
            /\ walkErr = "ioerr"
            /\ (pc \in {"main", "exited"} => ret = [results |-> <<>>, err |-> "ioerr"])

\* C8's case: run returned the error after a folder had been accepted
C8_Witness ==
    /\ pc = "main"
    /\ Len(results.folders) >= 1
    /\ \E n \in EvaluatedNodes : AgeReadFails(n) \/ (n \in SizedNodes /\ SizeReadFails(n))
    /\ ret = [results |-> <<>>, err |-> "ioerr"]

\* the directories the main walk evaluates when nothing stops it: those
\* named node_modules, outside every other node_modules and outside every
\* directory the callback prunes
Pruned(n) ==
    exclusionOn /\ \E a \in Ancestors(n) \cup {n} : excludedPath(PathOf(a))
Candidates ==
    { n \in Dirs \ {Root} : Name(n) = NodeModules /\ ~InsideNodeModules(n) /\ ~Pruned(n) }

\* the candidates that meet both thresholds
Qualifying ==
    { n \in Candidates : /\ modDaysAgoOf(n).val >= c.daysAgo
                          /\ folderSizeMb(n).val >= c.mbGreater }

\* the first k of them in traversal order (the nodes are numbered in the
\* order of the walk)
FirstQualifying(k) ==
    { n \in Qualifying : Cardinality({ m \in Qualifying : m < n }) < k }

\* C9: with limit >= 1, at least limit qualifying candidates and no error,
\* the walk ends right after the limit-th acceptance, and run returns
\* success with exactly the first limit qualifying candidates of the walk.
C9_EarlyStop ==
    (fault = NoFault /\ c.limit >= 1 /\ Cardinality(Qualifying) >= c.limit) =>
        /\ Len(results.folders) = c.limit =>
              /\ todo = <<>>
              /\ pc # "walk"
              /\ walkErr = "reachedMax"
              /\ visited[Len(visited)].node \in FirstQualifying(c.limit)
              /\ \A n \in FirstQualifying(c.limit) : n <= visited[Len(visited)].node
        /\ pc \in {"main", "exited"} =>
              /\ ret.err = "nil"
              /\ Len(ret.results[1].folders) = c.limit
              /\ ResultPaths = { PathOf(n) : n \in FirstQualifying(c.limit) }

\* C9's case: two candidates qualify, the limit is 1, and the process ended
\* without the walk having reached the second project
C9_Witness ==
    /\ fault = NoFault
    /\ c.limit = 1
    /\ Cardinality(Qualifying) = 2
    /\ pc = "exited"
    /\ exitCode = 0
    /\ 7 \notin VisitedNodes

\* the folders are in non-increasing order of size
SortedBySize(folders) ==
    \A i \in 1..(Len(folders) - 1) : folders[i].sizeMb >= folders[i + 1].sizeMb

\* the two sequences hold the same folders, each as often
SameFolders(s, t) ==
    /\ Len(s) = Len(t)
    /\ \A i \in 1..Len(s) :
          Cardinality({ j \in 1..Len(s) : s[j] = s[i] })
            = Cardinality({ j \in 1..Len(t) : t[j] = s[i] })

\* C10: when run returns successfully, the folders it returns are ordered
\* by sizeMb non-increasing, and they are the folders of before the sort
\* with the same totalSizeMb.
C10_SortOnlyReorders ==
    [][(pc = "walked" /\ pc' = "main" /\ ret'.err = "nil") =>
          /\ SortedBySize(ret'.results[1].folders)
          /\ SameFolders(results.folders, ret'.results[1].folders)
          /\ ret'.results[1].totalSizeMb = results.totalSizeMb]_vars

\* C10's case: run returned two folders, the one accepted second first
C10_Witness ==
    /\ pc = "main"
    /\ ret.err = "nil"
    /\ Len(ret.results[1].folders) = 2
    /\ ret.results[1].folders[1].path = PathOf(8)
    /\ ret.results[1].folders[1].sizeMb > ret.results[1].folders[2].sizeMb

\* the sum of sizeMb over a sequence of folders
RECURSIVE SumSizeMb(_)
SumSizeMb(folders) ==
    IF folders = <<>> THEN 0 ELSE Head(folders).sizeMb + SumSizeMb(Tail(folders))

\* C11: in every state totalSizeMb is the sum of sizeMb over the folders of
\* the Results (the accumulated ones and the returned ones), and a step
\* that changes the folders or the total either appends one folder and
\* adds its size to the total, or reorders the folders and leaves the
\* total alone.
C11_TotalIsSumOfSizes ==
    /\ [](/\ results.totalSizeMb = SumSizeMb(results.folders)
          /\ ret.results # <<>> =>
                ret.results[1].totalSizeMb = SumSizeMb(ret.results[1].folders))
    /\ [][results' # results =>
            \/ /\ Len(results'.folders) = Len(results.folders) + 1
               /\ SubSeq(results'.folders, 1, Len(results.folders)) = results.folders
               /\ results'.totalSizeMb
                    = results.totalSizeMb + results'.folders[Len(results'.folders)].sizeMb
            \/ /\ SameFolders(results.folders, results'.folders)
               /\ results'.totalSizeMb = results.totalSizeMb]_vars

\* C11's case: two folders were added and the total is the sum of two
\* positive sizes
C11_Witness ==
    /\ Len(results.folders) = 2
    /\ results.folders[1].sizeMb > 0
    /\ results.folders[2].sizeMb > 0
    /\ results.totalSizeMb = results.folders[1].sizeMb + results.folders[2].sizeMb

\* the paths of the folders run returned, in their order
ReturnedPaths ==
    IF ret.results = <<>> THEN <<>>
    ELSE [i \in 1..Len(ret.results[1].folders) |-> ret.results[1].folders[i].path]

IsPrefix(p, q) == Len(p) <= Len(q) /\ SubSeq(q, 1, Len(p)) = p

\* C12: a path is removed only after run returned successfully and only
\* with c.delete set; the removals go through the returned folders one at
\* a time in their order, which is descending by size, and touch no other
\* path.
C12_DeletionOnlyAfterSuccessfulRun ==
    /\ (pc \in {"run", "walk", "walked"} \/ ~c.delete \/ ret.err # "nil") =>
          (attempted = <<>> /\ deleted = <<>>)
    /\ attempted # <<>> =>
          /\ IsPrefix(attempted, ReturnedPaths)
          /\ SortedBySize(ret.results[1].folders)
          /\ \A i \in 1..Len(deleted) : \E j \in 1..Len(attempted) : deleted[i] = attempted[j]
          /\ \A i \in 1..Len(attempted) : attempted[i] \in ResultPaths
          /\ \A i \in 1..Len(attempted) : Base(attempted[i]) = NodeModules

\* C12's case: both returned folders were removed, the larger one, which
\* was accepted second, first
C12_Witness ==
    /\ pc = "exited"
    /\ Len(deleted) = 2
    /\ deleted[1] = PathOf(8)
    /\ ret.results[1].folders[1].sizeMb > ret.results[1].folders[2].sizeMb

\* C13: when removing the k-th returned folder fails, the process ends
\* there with status 1: the k-1 folders before it are removed and stay so,
\* no folder after it is attempted, and no removal is attempted twice.
C13_DeletionStopsAtFirstFailure ==
    /\ \A i, j \in 1..Len(attempted) : attempted[i] = attempted[j] => i = j
    /\ IsPrefix(deleted, attempted)
    /\ Len(attempted) <= Len(deleted) + 1
    /\ Len(attempted) > Len(deleted) =>
          /\ pc = "exited"
          /\ exitCode = 1
          /\ deleted = SubSeq(attempted, 1, Len(attempted) - 1)
          /\ IsPrefix(attempted, ReturnedPaths)

\* C13's case: of two returned folders the first was removed and the
\* removal of the second failed
C13_Witness ==
    /\ Len(ReturnedPaths) = 2
    /\ Len(attempted) = 2
    /\ Len(deleted) = 1
    /\ exitCode = 1

\* the non-directory entries under directory p, every node_modules under p
\* taken as opaque
ProjectFiles(p) ==
    { f \in Files :
        /\ p \in Ancestors(f)
        /\ \A a \in Ancestors(f) : p \in Ancestors(a) => Name(a) # NodeModules }

Newest(times) == CHOOSE t \in times : \A u \in times : u <= t

\* the age in days of the newest of them
ParentWalkAge(n) ==
    daysSince(Newest({ fs[f].mtime : f \in ProjectFiles(parent[n]) } \cup {ZeroTime}))

\* the age in days a candidate's own modification time gives
OwnAge(n) == daysSince(fs[n].mtime)

\* every accepted folder records age(n), and a candidate whose age could
\* be read goes on to the size computation exactly when age(n) reaches
\* c.daysAgo
AgeIs(n, age) ==
    /\ PathOf(n) \in ResultPaths =>
          \A i \in 1..Len(results.folders) :
              results.folders[i].path = PathOf(n) => results.folders[i].modDaysAgo = age
    /\ (n \in EvaluatedNodes /\ ~AgeReadFails(n)) =>
          (n \in SizedNodes <=> age >= c.daysAgo)

ComparedAge(n) == IF build = "npmcleaner" THEN OwnAge(n) ELSE ParentWalkAge(n)

\* C15: folderSizeMb is invoked only for candidates whose age was read and
\* is at least c.daysAgo, after the age check of that same invocation of
\* the callback, and at most once per candidate; a candidate younger than
\* c.daysAgo is rejected without it.
C15_AgeCheckBeforeSize ==
    /\ \A i, j \in 1..Len(sizeCalls) : sizeCalls[i] = sizeCalls[j] => i = j
    /\ \A n \in SizedNodes :
          /\ n \in EvaluatedNodes
          /\ ~AgeReadFails(n)
          /\ ComparedAge(n) >= c.daysAgo
    /\ \A n \in EvaluatedNodes :
          (~AgeReadFails(n) /\ ComparedAge(n) < c.daysAgo) =>
              (n \notin SizedNodes /\ PathOf(n) \notin ResultPaths)

\* C15's case: the first candidate was rejected as too fresh without a
\* size computation and the second one had its size computed
C15_Witness ==
    /\ 3 \in EvaluatedNodes
    /\ ComparedAge(3) < c.daysAgo
    /\ sizeCalls = <<8>>

\* C17: when the walk ran to its end with no I/O error and no early stop,
\* the results hold exactly the qualifying candidates, each once.
C17_Complete ==
    (fault = NoFault /\ walkErr = "nil" /\ pc \in {"walked", "main", "exited"}) =>
        /\ ResultPaths = { PathOf(n) : n \in Qualifying }
        /\ Len(results.folders) = Cardinality(Qualifying)

\* C17's case: the walk ended by itself with one candidate qualifying and
\* the other evaluated and rejected
C17_Witness ==
    /\ fault = NoFault
    /\ walkErr = "nil"
    /\ pc = "exited"
    /\ Cardinality(Qualifying) = 1
    /\ Cardinality(Candidates) = 2
    /\ Len(results.folders) = 1

\* C16: daysSince(t) is floor((now - t) / 86400), for every time t, those
\* later than now included.
C16_DaysSinceIsFloor ==
    clockDays # <<>> => clockDays[1] = (Now - clockT) \div DaySecs

\* C16 as amended: daysSince(t) is (now - t) / 86400 rounded toward zero:
\* the floor for t up to now, and for t later than now the floor plus one
\* unless t is a whole number of days ahead.
C16_DaysSinceTruncates ==
    clockDays # <<>> =>
        LET diff == Now - clockT
            floor == diff \div DaySecs
        IN clockDays[1] = IF diff >= 0 \/ diff % DaySecs = 0 THEN floor ELSE floor + 1

\* C16's case: daysSince was called on a time later than now and returned
\* more than the floor
C16_Witness ==
    /\ clockDays # <<>>
    /\ clockT > Now
    /\ clockDays[1] > (Now - clockT) \div DaySecs

====
